---- MODULE Spec2Model ----
(***************************************************************************)
(* Wabbit data model (rust/wabbit/src/model.rs), its debugging renderer    *)
(* to_source, the sample programs of rust/wabbit/src/main.rs, and the      *)
(* maxval exercise (exercises/src/recursion.rs).                           *)
(*                                                                         *)
(* Text is a sequence of one-character strings, so that two outputs are    *)
(* equal exactly when they are byte-identical.  to_source is recursive and *)
(* prints as it goes; it is modelled by an explicit call stack, one frame  *)
(* per active call, each frame stepping through the statements of the      *)
(* match arm selected for its node.                                        *)
(***************************************************************************)
EXTENDS Integers, Sequences, FiniteSets, TLC

\* roots       the trees main has built, rendered one after the other
\* calls       how many of them main has passed to to_source so far
\* stack       the active to_source calls, innermost last
\* out         everything printed so far
\* done        the record of each finished top-level call: its node, the
\*             part of out it printed, and the same for its nested calls
\* fellThrough whether any call has reached the catch-all arm
\* mx, mstack, mret, mcalls, mpc   the maxval exercise: its argument, the
\*             active calls, the last returned value, the number of
\*             recursive calls made, and where the computation stands
VARIABLES roots, calls, stack, out, done, fellThrough,
          mx, mstack, mret, mcalls, mpc

vars == <<roots, calls, stack, out, done, fellThrough,
          mx, mstack, mret, mcalls, mpc>>

rvars == <<roots, calls, stack, out, done, fellThrough>>

mvars == <<mx, mstack, mret, mcalls, mpc>>

(***************************************************************************)
(* Bounds                                                                  *)
(***************************************************************************)
\* integer literals 0..MaxInt are among the child trees
MaxInt == 1

\* longest Nil-terminated Pair chain of statements
MaxChain == 3

\* longest slice handed to maxval
MaxLen == 4

\* slice elements range over -MaxVal..MaxVal
MaxVal == 2

(***************************************************************************)
(* model.rs: Operator and Node, one constructor per variant                *)
(***************************************************************************)
Operator == {"PLUS", "MINUS", "TIMES", "DIVIDE", "LT", "LE", "GT", "GE", "EQ", "NE"}

Nil == [kind |-> "Nil"]

Integer(value) == [kind |-> "Integer", ival |-> value]

\* an f64 is represented by the integer number of 1/100000 units it holds
Float(value) == [kind |-> "Float", fval |-> value]

BinOp(op, left, right) == [kind |-> "BinOp", op |-> op, left |-> left, right |-> right]

UnaryOp(op, value) == [kind |-> "UnaryOp", op |-> op, value |-> value]

PrintStatement(expr) == [kind |-> "PrintStatement", expr |-> expr]

AssignmentStatement(location, expression) ==
    [kind |-> "AssignmentStatement", location |-> location, expression |-> expression]

LoadLocation(location) == [kind |-> "LoadLocation", loc |-> location]

NamedLocation(name) == [kind |-> "NamedLocation", name |-> name]

ConstDefinition(name, dtype, value) ==
    [kind |-> "ConstDefinition", name |-> name, dtype |-> dtype, value |-> value]

VarDefinition(name, dtype, value) ==
    [kind |-> "VarDefinition", name |-> name, dtype |-> dtype, value |-> value]

IfStatement(test, consequence, alternative) ==
    [kind |-> "IfStatement", test |-> test, consequence |-> consequence,
     alternative |-> alternative]

WhileStatement(test, body) == [kind |-> "WhileStatement", test |-> test, body |-> body]

Pair(stmt1, stmt2) == [kind |-> "Pair", first |-> stmt1, second |-> stmt2]

(***************************************************************************)
(* print!("{}", val) for i32 and f64                                       *)
(***************************************************************************)
DigitChar == <<"0", "1", "2", "3", "4", "5", "6", "7", "8", "9">>

RECURSIVE fmt_nat(_)
fmt_nat(n) == IF n < 10 THEN <<DigitChar[n + 1]>>
              ELSE fmt_nat(n \div 10) \o <<DigitChar[(n % 10) + 1]>>

\* Display for i32: decimal digits, '-' in front of a negative value
fmt_i32(val) == IF val < 0 THEN <<"-">> \o fmt_nat(0 - val) ELSE fmt_nat(val)

RECURSIVE fmt_digits(_, _)
\* n as exactly width decimal digits, zero-padded on the left
fmt_digits(n, width) ==
    IF width = 0 THEN <<>>
    ELSE fmt_digits(n \div 10, width - 1) \o <<DigitChar[(n % 10) + 1]>>

RECURSIVE strip_zeros(_)
strip_zeros(s) ==
    IF s = <<>> THEN s
    ELSE IF s[Len(s)] = "0" THEN strip_zeros(SubSeq(s, 1, Len(s) - 1))
    ELSE s

\* Display for f64: shortest text that reads back as the value; a whole
\* number prints without a fractional part (2.0 prints as 2)
fmt_f64(val) ==
    LET a == IF val < 0 THEN 0 - val ELSE val
        whole == a \div 100000
        frac == a % 100000
    IN  (IF val < 0 THEN <<"-">> ELSE <<>>)
        \o fmt_nat(whole)
        \o (IF frac = 0 THEN <<>> ELSE <<".">> \o strip_zeros(fmt_digits(frac, 5)))

\* print!("{:?}", node): the derived Debug text starts with the variant
\* name; only that much of it is modelled
fmt_debug(node) == <<node.kind>>

(***************************************************************************)
(* to_source: the statements of each match arm, in order.  An arm is a     *)
(* sequence of steps: print a text, or call to_source on a child.          *)
(***************************************************************************)
DoPrint(text) == [op |-> "print", text |-> text, arg |-> Nil]

DoCall(node) == [op |-> "call", text |-> <<>>, arg |-> node]

DoDebug(node) == [op |-> "debug", text |-> fmt_debug(node), arg |-> Nil]

\* match op { ... } inside the BinOp arm
binop_token(op) ==
    CASE op = "PLUS"   -> <<" ", "+", " ">>
      [] op = "MINUS"  -> <<" ", "-", " ">>
      [] op = "TIMES"  -> <<" ", "*", " ">>
      [] op = "DIVIDE" -> <<" ", "/", " ">>
      [] op = "LT"     -> <<" ", "<", " ">>
      [] op = "LE"     -> <<" ", "<", "=", " ">>
      [] op = "GT"     -> <<" ", ">", " ">>
      [] op = "GE"     -> <<" ", "<", "=", " ">>
      [] op = "EQ"     -> <<" ", "=", "=", " ">>
      [] op = "NE"     -> <<" ", "!", "=", " ">>

\* the tokens of the BinOp arm reused for the prefix position
unaryop_token_binary(op) == binop_token(op)

\* match op { ... } inside the UnaryOp arm
unaryop_token(op) ==
    CASE op = "PLUS"  -> <<"+">>
      [] op = "MINUS" -> <<"-">>
      [] OTHER        -> <<>>

IntegerArm(node) == <<DoPrint(fmt_i32(node.ival))>>

FloatArm(node) == <<DoPrint(fmt_f64(node.fval))>>

\* operands wrapped in parentheses
BinOpArm_grouped(node) ==
    <<DoPrint(<<"(">>), DoCall(node.left), DoPrint(binop_token(node.op)), DoCall(node.right),
      DoPrint(<<")">>)>>

BinOpArm(node) ==
    <<DoCall(node.left), DoPrint(binop_token(node.op)), DoCall(node.right)>>

UnaryOpArm(node) == <<DoPrint(unaryop_token(node.op)), DoCall(node.value)>>

PrintStatementArm(node) ==
    <<DoPrint(<<"p", "r", "i", "n", "t", " ">>), DoCall(node.expr), DoPrint(<<";", "\n">>)>>

AssignmentStatementArm(node) ==
    <<DoCall(node.location), DoPrint(<<" ", "=", " ">>), DoCall(node.expression),
      DoPrint(<<";", "\n">>)>>

\* the initializer left out whenever it would render to nothing
VarDefinitionArm_emptytext(node) ==
    <<DoPrint(<<"v", "a", "r", " ">> \o node.name \o <<" ">> \o node.dtype)>>
    \o (IF node.value \in {Nil, Pair(Nil, Nil)} THEN <<>>
        ELSE <<DoPrint(<<" ", "=", " ">>), DoCall(node.value)>>)
    \o <<DoPrint(<<";", "\n">>)>>

VarDefinitionArm(node) ==
    <<DoPrint(<<"v", "a", "r", " ">> \o node.name \o <<" ">> \o node.dtype)>>
    \o (IF node.value = Nil THEN <<>>
        ELSE <<DoPrint(<<" ", "=", " ">>), DoCall(node.value)>>)
    \o <<DoPrint(<<";", "\n">>)>>

ConstDefinitionArm(node) ==
    <<DoPrint(<<"c", "o", "n", "s", "t", " ">> \o node.name \o <<" ">> \o node.dtype
              \o <<" ", "=", " ">>),
      DoCall(node.value),
      DoPrint(<<";", "\n">>)>>

NamedLocationArm(node) == <<DoPrint(node.name)>>

LoadLocationArm(node) == <<DoCall(node.loc)>>

\* the else block left out when there is no alternative
IfStatementArm_noelse(node) ==
    <<DoPrint(<<"i", "f", " ">>),
      DoCall(node.test),
      DoPrint(<<" ", "{", "\n">>),
      DoCall(node.consequence)>>
    \o (IF node.alternative = Nil THEN <<>>
        ELSE <<DoPrint(<<"}", " ", "e", "l", "s", "e", " ", "{", "\n">>),
               DoCall(node.alternative)>>)
    \o <<DoPrint(<<"}", "\n">>)>>

IfStatementArm(node) ==
    <<DoPrint(<<"i", "f", " ">>),
      DoCall(node.test),
      DoPrint(<<" ", "{", "\n">>),
      DoCall(node.consequence),
      DoPrint(<<"}", " ", "e", "l", "s", "e", " ", "{", "\n">>),
      DoCall(node.alternative),
      DoPrint(<<"}", "\n">>)>>

\* the body rendered where the test belongs and the test where the body belongs
WhileStatementArm_swapped(node) ==
    <<DoPrint(<<"w", "h", "i", "l", "e", " ">>),
      DoCall(node.body),
      DoPrint(<<" ", "{", "\n">>),
      DoCall(node.test),
      DoPrint(<<"}", "\n">>)>>

WhileStatementArm(node) ==
    <<DoPrint(<<"w", "h", "i", "l", "e", " ">>),
      DoCall(node.test),
      DoPrint(<<" ", "{", "\n">>),
      DoCall(node.body),
      DoPrint(<<"}", "\n">>)>>

\* the rest of the sequence rendered before its first statement
PairArm_swapped(node) == <<DoCall(node.second), DoCall(node.first)>>

PairArm(node) == <<DoCall(node.first), DoCall(node.second)>>

NilArm(node) == <<>>

\* the match without an arm for Nil
to_source_noNil(node) ==
    CASE node.kind = "Integer"             -> IntegerArm(node)
      [] node.kind = "Float"               -> FloatArm(node)
      [] node.kind = "BinOp"               -> BinOpArm(node)
      [] node.kind = "UnaryOp"             -> UnaryOpArm(node)
      [] node.kind = "PrintStatement"      -> PrintStatementArm(node)
      [] node.kind = "AssignmentStatement" -> AssignmentStatementArm(node)
      [] node.kind = "VarDefinition"       -> VarDefinitionArm(node)
      [] node.kind = "ConstDefinition"     -> ConstDefinitionArm(node)
      [] node.kind = "NamedLocation"       -> NamedLocationArm(node)
      [] node.kind = "LoadLocation"        -> LoadLocationArm(node)
      [] node.kind = "IfStatement"         -> IfStatementArm(node)
      [] node.kind = "WhileStatement"      -> WhileStatementArm(node)
      [] node.kind = "Pair"                -> PairArm(node)
      [] OTHER                             -> <<DoDebug(node)>>

\* match node { ... }: the arm taken for a node
to_source(node) ==
    CASE node.kind = "Integer"             -> IntegerArm(node)
      [] node.kind = "Float"               -> FloatArm(node)
      [] node.kind = "BinOp"               -> BinOpArm(node)
      [] node.kind = "UnaryOp"             -> UnaryOpArm(node)
      [] node.kind = "PrintStatement"      -> PrintStatementArm(node)
      [] node.kind = "AssignmentStatement" -> AssignmentStatementArm(node)
      [] node.kind = "VarDefinition"       -> VarDefinitionArm(node)
      [] node.kind = "ConstDefinition"     -> ConstDefinitionArm(node)
      [] node.kind = "NamedLocation"       -> NamedLocationArm(node)
      [] node.kind = "LoadLocation"        -> LoadLocationArm(node)
      [] node.kind = "IfStatement"         -> IfStatementArm(node)
      [] node.kind = "WhileStatement"      -> WhileStatementArm(node)
      [] node.kind = "Pair"                -> PairArm(node)
      [] node.kind = "Nil"                 -> NilArm(node)
      [] OTHER                             -> <<DoDebug(node)>>

(***************************************************************************)
(* main.rs: the sample programs                                            *)
(***************************************************************************)
model0 == BinOp("PLUS", Integer(2), BinOp("TIMES", Integer(3), Integer(4)))

model1 ==
    LET s1 == PrintStatement(BinOp("PLUS", Integer(2),
                  BinOp("TIMES", Integer(3), UnaryOp("MINUS", Integer(4)))))
        s2 == PrintStatement(BinOp("MINUS", Float(200000),
                  BinOp("DIVIDE", Float(300000), UnaryOp("MINUS", Float(400000)))))
        s3 == PrintStatement(BinOp("PLUS", UnaryOp("MINUS", Integer(2)), Integer(3)))
        s4 == PrintStatement(BinOp("PLUS", BinOp("TIMES", Integer(2), Integer(3)),
                  Integer(4)))
    IN  Pair(s1, Pair(s2, Pair(s3, Pair(s4, Nil))))

model2 ==
    LET s1 == ConstDefinition(<<"p", "i">>, <<>>, Float(314159))
        s2 == VarDefinition(<<"t", "a", "u">>, <<"f", "l", "o", "a", "t">>, Nil)
        s3 == AssignmentStatement(NamedLocation(<<"t", "a", "u">>),
                  BinOp("TIMES", Float(200000), LoadLocation(NamedLocation(<<"p", "i">>))))
        s4 == PrintStatement(LoadLocation(NamedLocation(<<"t", "a", "u">>)))
    IN  Pair(s1, Pair(s2, Pair(s3, Pair(s4, Nil))))

model3 ==
    LET s1 == VarDefinition(<<"a">>, <<"i", "n", "t">>, Integer(2))
        s2 == VarDefinition(<<"b">>, <<"i", "n", "t">>, Integer(3))
        s3 == Pair(PrintStatement(LoadLocation(NamedLocation(<<"a">>))), Nil)
        s4 == Pair(PrintStatement(LoadLocation(NamedLocation(<<"b">>))), Nil)
        s5 == IfStatement(BinOp("LT", LoadLocation(NamedLocation(<<"a">>)),
                                LoadLocation(NamedLocation(<<"b">>))),
                          s3, s4)
    IN  Pair(s1, Pair(s2, Pair(s5, Nil)))

\* the three statements of model4's loop body
model4_b1 ==
    AssignmentStatement(NamedLocation(<<"f", "a", "c", "t">>),
        BinOp("TIMES", LoadLocation(NamedLocation(<<"f", "a", "c", "t">>)),
                       LoadLocation(NamedLocation(<<"x">>))))

model4_b2 == PrintStatement(LoadLocation(NamedLocation(<<"f", "a", "c", "t">>)))

model4_b3 ==
    AssignmentStatement(NamedLocation(<<"x">>),
        BinOp("PLUS", LoadLocation(NamedLocation(<<"x">>)), Integer(1)))

model4 ==
    LET s1 == ConstDefinition(<<"n">>, <<>>, Integer(10))
        s2 == VarDefinition(<<"x">>, <<"i", "n", "t">>, Integer(1))
        s3 == VarDefinition(<<"f", "a", "c", "t">>, <<"i", "n", "t">>, Integer(1))
        s4 == WhileStatement(BinOp("LT", LoadLocation(NamedLocation(<<"x">>)),
                                   LoadLocation(NamedLocation(<<"n">>))),
                             Pair(model4_b1, Pair(model4_b2, Pair(model4_b3, Nil))))
    IN  Pair(s1, Pair(s2, Pair(s3, Pair(s4, Nil))))

(***************************************************************************)
(* The trees rendered: the samples, and every variant built over a set of  *)
(* child trees that holds expressions, statements, sequences and Nil, so   *)
(* that well-formed and malformed combinations both occur.                 *)
(***************************************************************************)
Kids ==
    {Nil, Pair(Nil, Nil)}
    \cup {Integer(i) : i \in 0..MaxInt}
    \cup {Float(314159),
          NamedLocation(<<"a">>),
          BinOp("TIMES", Integer(3), Integer(4)),
          UnaryOp("MINUS", Integer(4)),
          PrintStatement(LoadLocation(NamedLocation(<<"a">>))),
          Pair(PrintStatement(Integer(-7)), Nil)}

Names == {<<"t", "a", "u">>, <<"n">>}

Dtypes == {<<>>, <<"f", "l", "o", "a", "t">>}

\* the statements that statement chains are made of
Stmts == {model4_b1, model4_b2, model4_b3}

RECURSIVE Chains(_)
\* the Nil-terminated Pair chains of at most n statements
Chains(n) ==
    IF n = 0 THEN {Nil}
    ELSE {Nil} \cup {Pair(s, c) : s \in Stmts, c \in Chains(n - 1)}

LoopTest == BinOp("LT", NamedLocation(<<"x">>), NamedLocation(<<"n">>))

Trees ==
    Kids
    \cup {model0, model1, model2, model3, model4}
    \cup {BinOp(op, l, r) : op \in Operator, l \in Kids, r \in Kids}
    \cup {UnaryOp(op, v) : op \in Operator, v \in Kids}
    \cup {PrintStatement(e) : e \in Kids}
    \cup {AssignmentStatement(l, e) : l \in Kids, e \in Kids}
    \cup {LoadLocation(l) : l \in Kids}
    \cup {ConstDefinition(n, d, v) : n \in Names, d \in Dtypes, v \in Kids}
    \cup {VarDefinition(n, d, v) : n \in Names, d \in Dtypes, v \in Kids}
    \cup {IfStatement(t, c, a) : t \in Kids, c \in Kids, a \in Kids}
    \cup {WhileStatement(t, b) : t \in Kids, b \in Kids}
    \cup {Pair(a, b) : a \in Kids, b \in Kids}
    \cup Chains(MaxChain)
    \cup {WhileStatement(LoopTest, c) : c \in Chains(MaxChain)}

\* expression trees over the leaves 2, 3, 4 of model0, in both groupings
ExprOps == {"PLUS", "TIMES", "LE", "GE"}

Exprs ==
    {BinOp(o1, Integer(2), BinOp(o2, Integer(3), Integer(4))) : o1 \in ExprOps, o2 \in ExprOps}
    \cup {BinOp(o2, BinOp(o1, Integer(2), Integer(3)), Integer(4)) : o1 \in ExprOps, o2 \in ExprOps}

\* trees that break the structural conventions: a constant without a value,
\* an expression used as a statement, bare statements as branches and
\* bodies, an operator that is no prefix operator on a UnaryOp
malformed ==
    Pair(ConstDefinition(<<"n">>, <<>>, Nil),
    Pair(BinOp("PLUS", Integer(0), Integer(1)),
    Pair(IfStatement(UnaryOp("TIMES", Integer(1)),
                     PrintStatement(Integer(1)),
                     PrintStatement(Integer(0))),
    Pair(WhileStatement(Integer(1), PrintStatement(Integer(1))), Nil))))

\* what main has built: one tree, which it renders twice, or two different
\* expression trees over the same leaves, which it renders one after the
\* other
Roots ==
    {<<t>> : t \in Trees \cup {malformed}}
    \cup {p \in Exprs \X Exprs : p[1] # p[2]}

\* the tree main passes on its k-th call
Target(k) == IF Len(roots) = 1 THEN 1 ELSE k

(***************************************************************************)
(* Execution of to_source                                                  *)
(***************************************************************************)
\* a call that has just been entered
Frame(node) == [node |-> node, pc |-> 1, from |-> Len(out), kids |-> <<>>]

Top == stack[Len(stack)]

\* the step the innermost call is about to take
Step == to_source(Top.node)[Top.pc]

Running == stack # <<>> /\ Top.pc <= Len(to_source(Top.node))

\* a call that takes the tree out of main's hands and leaves Nil behind
Call_take ==
    /\ stack = <<>>
    /\ calls < 2
    /\ calls' = calls + 1
    /\ stack' = <<Frame(roots[Target(calls + 1)])>>
    /\ roots' = [roots EXCEPT ![Target(calls + 1)] = Nil]
    /\ UNCHANGED <<out, done, fellThrough, mvars>>

\* main: to_source(&m)
Call ==
    /\ stack = <<>>
    /\ calls < 2
    /\ calls' = calls + 1
    /\ stack' = <<Frame(roots[Target(calls + 1)])>>
    /\ UNCHANGED <<roots, out, done, fellThrough, mvars>>

\* print!(...)
Emit ==
    /\ Running
    /\ Step.op \in {"print", "debug"}
    /\ out' = out \o Step.text
    /\ fellThrough' = (fellThrough \/ Step.op = "debug")
    /\ stack' = [stack EXCEPT ![Len(stack)].pc = @ + 1]
    /\ UNCHANGED <<roots, calls, done, mvars>>

\* to_source(child)
Recurse ==
    /\ Running
    /\ Step.op = "call"
    /\ stack' = Append([stack EXCEPT ![Len(stack)].pc = @ + 1], Frame(Step.arg))
    /\ UNCHANGED <<roots, calls, out, done, fellThrough, mvars>>

\* the end of the arm: the call returns to its caller
Return ==
    /\ stack # <<>>
    /\ Top.pc > Len(to_source(Top.node))
    /\ LET rec == [node |-> Top.node, from |-> Top.from, to |-> Len(out),
                   kids |-> Top.kids]
           rest == SubSeq(stack, 1, Len(stack) - 1)
       IN  IF rest = <<>>
           THEN /\ done' = Append(done, rec)
                /\ stack' = rest
           ELSE /\ done' = done
                /\ stack' = [rest EXCEPT ![Len(rest)].kids = Append(@, rec)]
    /\ UNCHANGED <<roots, calls, out, fellThrough, mvars>>

MaxIdle ==
    /\ mx = <<>>
    /\ mstack = <<>>
    /\ mret = 0
    /\ mcalls = 0
    /\ mpc = "idle"

Init ==
    /\ roots \in Roots
    /\ calls = 0
    /\ stack = <<>>
    /\ out = <<>>
    /\ done = <<>>
    /\ fellThrough = FALSE
    /\ MaxIdle

Next == Call \/ Emit \/ Recurse \/ Return

Spec == Init /\ [][Next]_vars

\* a call that has been made runs on until it returns
FairSpec == Spec /\ WF_vars(Emit \/ Recurse \/ Return)

(***************************************************************************)
(* recursion.rs: maxval                                                    *)
(***************************************************************************)
\* the first element never compared
max_second(a, b) == b

\* std::cmp::max on i32
max(a, b) == IF a >= b THEN a ELSE b

Slices == UNION {[1..n -> (0 - MaxVal)..MaxVal] : n \in 0..MaxLen}

\* the innermost active call's argument
MTop == mstack[Len(mstack)]

\* what is left after the innermost call has returned
MRest == SubSeq(mstack, 1, Len(mstack) - 1)

\* if x.len() == 1 { x[0] }
maxval_base ==
    /\ mpc = "call"
    /\ Len(MTop) = 1
    /\ mret' = MTop[1]
    /\ mstack' = MRest
    /\ mpc' = IF MRest = <<>> THEN "done" ELSE "ret"
    /\ UNCHANGED <<mx, mcalls, rvars>>

\* else: x[0] is read, then maxval(&x[1..]) is called
maxval_recurse ==
    /\ mpc = "call"
    /\ Len(MTop) > 1
    /\ mstack' = Append(mstack, Tail(MTop))
    /\ mcalls' = mcalls + 1
    /\ UNCHANGED <<mx, mret, mpc, rvars>>

\* else, on an empty slice: x[0] is out of bounds and the program panics
maxval_panic ==
    /\ mpc = "call"
    /\ Len(MTop) = 0
    /\ mpc' = "panic"
    /\ UNCHANGED <<mx, mstack, mret, mcalls, rvars>>

\* max(x[0], <the value the inner call returned>)
maxval_return ==
    /\ mpc = "ret"
    /\ mret' = max(MTop[1], mret)
    /\ mstack' = MRest
    /\ mpc' = IF MRest = <<>> THEN "done" ELSE "ret"
    /\ UNCHANGED <<mx, mcalls, rvars>>

MaxInit ==
    /\ mx \in Slices
    /\ mstack = <<mx>>
    /\ mret = 0
    /\ mcalls = 0
    /\ mpc = "call"
    /\ roots = <<Nil>>
    /\ calls = 2
    /\ stack = <<>>
    /\ out = <<>>
    /\ done = <<>>
    /\ fellThrough = FALSE

MaxNext == maxval_base \/ maxval_recurse \/ maxval_panic \/ maxval_return

MaxSpec == MaxInit /\ [][MaxNext]_vars /\ WF_vars(MaxNext)

(***************************************************************************)
(* Properties of to_source.  The text a call emitted is the part of out    *)
(* between its entry and its return; render(t) in the statements below is  *)
(* the text emitted by the call made on t.                                 *)
(***************************************************************************)
Text(rec) == SubSeq(out, rec.from + 1, rec.to)

RECURSIVE Records(_)
\* a finished call and all the calls nested in it
Records(rec) == {rec} \cup UNION {Records(rec.kids[i]) : i \in 1..Len(rec.kids)}

\* every call that has returned so far
Finished ==
    UNION {Records(done[i]) : i \in 1..Len(done)}
    \cup UNION {UNION {Records(stack[i].kids[j]) : j \in 1..Len(stack[i].kids)} :
                  i \in 1..Len(stack)}

\* the calls made on the given children, one after the other, and no others
CallsOn(rec, children) ==
    /\ Len(rec.kids) = Len(children)
    /\ \A i \in 1..Len(children) : rec.kids[i].node = children[i]

\* the operator tokens as the language writes them
Token(op) ==
    CASE op = "PLUS"   -> <<"+">>
      [] op = "MINUS"  -> <<"-">>
      [] op = "TIMES"  -> <<"*">>
      [] op = "DIVIDE" -> <<"/">>
      [] op = "LT"     -> <<"<">>
      [] op = "LE"     -> <<"<", "=">>
      [] op = "GT"     -> <<">">>
      [] op = "GE"     -> <<">", "=">>
      [] op = "EQ"     -> <<"=", "=">>
      [] op = "NE"     -> <<"!", "=">>

\* C1: a call on BinOp(op, l, r) emits render(l), one space, the token of
\* op, one space, render(r), for each of the ten operators
C1_BinOpText ==
    \A rec \in Finished :
        rec.node.kind = "BinOp" =>
            /\ CallsOn(rec, <<rec.node.left, rec.node.right>>)
            /\ Text(rec) = Text(rec.kids[1]) \o <<" ">> \o Token(rec.node.op) \o <<" ">>
                            \o Text(rec.kids[2])

RECURSIVE IsChain(_)
\* a Nil-terminated Pair chain
IsChain(node) ==
    \/ node = Nil
    \/ node.kind = "Pair" /\ IsChain(node.second)

RECURSIVE ChainStmts(_)
\* the statements of a Pair chain, up to its terminator
ChainStmts(node) ==
    IF node.kind = "Pair" THEN <<node.first>> \o ChainStmts(node.second) ELSE <<>>

RECURSIVE ChainCalls(_)
\* the calls made on the statements of a Pair chain, in the order made
ChainCalls(rec) ==
    IF rec.node.kind = "Pair" /\ Len(rec.kids) = 2
    THEN <<rec.kids[1]>> \o ChainCalls(rec.kids[2])
    ELSE <<>>

RECURSIVE Flat(_)
Flat(texts) == IF texts = <<>> THEN <<>> ELSE Head(texts) \o Flat(Tail(texts))

\* the calls cs emitted the whole of out between positions from and to, one
\* directly after the other
Contiguous(cs, from, to) ==
    /\ \A i \in 1..Len(cs) :
          cs[i].from = (IF i = 1 THEN from ELSE cs[i - 1].to)
    /\ (IF cs = <<>> THEN from ELSE cs[Len(cs)].to) = to

\* C2: Nil emits nothing, Pair(s, Nil) emits render(s), and a chain of n
\* statements emits their n renderings in chain order and nothing else
C2_SequenceText ==
    \A rec \in Finished :
        /\ rec.node = Nil => Text(rec) = <<>>
        /\ (rec.node.kind = "Pair" /\ rec.node.second = Nil) =>
               /\ CallsOn(rec, <<rec.node.first, Nil>>)
               /\ Text(rec) = Text(rec.kids[1])
        /\ IsChain(rec.node) =>
               LET cs == ChainCalls(rec)
               IN  /\ [i \in 1..Len(cs) |-> cs[i].node] = ChainStmts(rec.node)
                   /\ Text(rec) = Flat([i \in 1..Len(cs) |-> Text(cs[i])])
                   /\ Contiguous(cs, rec.from, rec.to)

C2_Witness ==
    \E rec \in Finished :
        /\ IsChain(rec.node)
        /\ Len(ChainStmts(rec.node)) >= 2
        /\ \A i \in 1..Len(ChainCalls(rec)) : Text(ChainCalls(rec)[i]) # <<>>
        /\ ChainStmts(rec.node)[1] # ChainStmts(rec.node)[2]

\* C3: VarDefinition emits 'var <name> <dtype>', then ' = ' and
\* render(value) exactly when value is not the Nil node, then ';' and a
\* newline; VarDefinition("tau", "float", Nil) emits "var tau float;\n"
C3_VarDefinitionText ==
    \A rec \in Finished :
        rec.node.kind = "VarDefinition" =>
            LET head == <<"v", "a", "r", " ">> \o rec.node.name \o <<" ">> \o rec.node.dtype
            IN  /\ rec.node.value = Nil =>
                       /\ rec.kids = <<>>
                       /\ Text(rec) = head \o <<";", "\n">>
                /\ rec.node.value # Nil =>
                       /\ CallsOn(rec, <<rec.node.value>>)
                       /\ Text(rec) = head \o <<" ", "=", " ">> \o Text(rec.kids[1])
                                       \o <<";", "\n">>
                /\ rec.node = VarDefinition(<<"t", "a", "u">>, <<"f", "l", "o", "a", "t">>, Nil) =>
                       Text(rec) = <<"v", "a", "r", " ", "t", "a", "u", " ",
                                     "f", "l", "o", "a", "t", ";", "\n">>

\* an initializer that is not Nil and renders to nothing
C3_Witness ==
    \E rec \in Finished :
        /\ rec.node.kind = "VarDefinition"
        /\ rec.node.value = Pair(Nil, Nil)
        /\ Len(rec.kids) = 1
        /\ Text(rec.kids[1]) = <<>>

\* C4: IfStatement emits 'if ', render(test), ' {\n', render(consequence),
\* '} else {\n', render(alternative), '}\n', also when alternative is Nil,
\* the consequence before the alternative
C4_IfStatementText ==
    \A rec \in Finished :
        rec.node.kind = "IfStatement" =>
            /\ CallsOn(rec, <<rec.node.test, rec.node.consequence, rec.node.alternative>>)
            /\ Text(rec) = <<"i", "f", " ">> \o Text(rec.kids[1])
                            \o <<" ", "{", "\n">> \o Text(rec.kids[2])
                            \o <<"}", " ", "e", "l", "s", "e", " ", "{", "\n">>
                            \o Text(rec.kids[3])
                            \o <<"}", "\n">>
            /\ rec.kids[2].to <= rec.kids[3].from

C4_Witness ==
    \E rec \in Finished :
        /\ rec.node.kind = "IfStatement"
        /\ rec.node.alternative = Nil
        /\ rec.node.consequence # Nil
        /\ Text(rec.kids[2]) # <<>>

\* a chain whose statements are assignments and prints
IsBlock(node) ==
    /\ IsChain(node)
    /\ \A i \in 1..Len(ChainStmts(node)) :
          ChainStmts(node)[i].kind \in {"AssignmentStatement", "PrintStatement"}

EndsStatement(text) ==
    /\ Len(text) >= 2
    /\ SubSeq(text, Len(text) - 1, Len(text)) = <<";", "\n">>

\* C5: WhileStatement emits 'while ', render(test), ' {\n', render(body),
\* '}\n', once each and in that order; the statements of a body that is a
\* chain of assignments and prints appear between the braces in chain
\* order, each ending in ';\n', none moved, repeated or left out
C5_WhileStatementText ==
    \A rec \in Finished :
        rec.node.kind = "WhileStatement" =>
            /\ CallsOn(rec, <<rec.node.test, rec.node.body>>)
            /\ Text(rec) = <<"w", "h", "i", "l", "e", " ">> \o Text(rec.kids[1])
                            \o <<" ", "{", "\n">> \o Text(rec.kids[2])
                            \o <<"}", "\n">>
            /\ IsBlock(rec.node.body) =>
                   LET cs == ChainCalls(rec.kids[2])
                   IN  /\ [i \in 1..Len(cs) |-> cs[i].node] = ChainStmts(rec.node.body)
                       /\ Contiguous(cs, rec.kids[1].to + 3, rec.to - 2)
                       /\ \A i \in 1..Len(cs) : EndsStatement(Text(cs[i]))

C5_Witness ==
    \E rec \in Finished :
        /\ rec.node.kind = "WhileStatement"
        /\ IsBlock(rec.node.body)
        /\ Len(ChainStmts(rec.node.body)) = 3
        /\ ChainStmts(rec.node.body)[1] # ChainStmts(rec.node.body)[2]
        /\ ChainStmts(rec.node.body)[2] # ChainStmts(rec.node.body)[3]

\* C6: UnaryOp emits '+' or '-' directly followed by render(v) for PLUS and
\* MINUS, and render(v) alone for each of the other eight operators
C6_UnaryOpText ==
    \A rec \in Finished :
        rec.node.kind = "UnaryOp" =>
            /\ CallsOn(rec, <<rec.node.value>>)
            /\ Text(rec) = (CASE rec.node.op = "PLUS"  -> <<"+">>
                              [] rec.node.op = "MINUS" -> <<"-">>
                              [] OTHER                 -> <<>>)
                            \o Text(rec.kids[1])

C6_Witness ==
    \E rec \in Finished :
        /\ rec.node.kind = "UnaryOp"
        /\ rec.node.op \notin {"PLUS", "MINUS"}
        /\ Text(rec) # <<>>

\* C7: every call of to_source returns, on well-formed and on malformed
\* trees alike, and no node of any tree reaches the catch-all arm
C7_TotalAndTerminating ==
    /\ [](~fellThrough)
    /\ ((stack # <<>>) ~> (stack = <<>>))
    /\ ((calls = 1) ~> (Len(done) = 1))

\* the rendering of the tree that breaks every convention has finished
C7_Witness ==
    /\ roots = <<malformed>>
    /\ Len(done) >= 1
    /\ done[1].node = malformed
    /\ stack = <<>>
    /\ Text(done[1]) # <<>>

C9_TextDeterminesTree ==
    (Len(done) = 2 /\ done[1].node # done[2].node) => Text(done[1]) # Text(done[2])

RECURSIVE InOrder(_)
\* the leaves and operators of an expression tree from left to right
InOrder(node) ==
    IF node.kind = "BinOp"
    THEN InOrder(node.left) \o <<node.op>> \o InOrder(node.right)
    ELSE <<node>>

\* C9 amended: to_source emits no grouping, so two expression trees with
\* the same leaves and operators from left to right render to the same
\* text however their operands are nested; model0 renders "2 + 3 * 4"
C9_TextIgnoresNesting ==
    /\ \A i \in 1..Len(done) : \A j \in 1..Len(done) :
          InOrder(done[i].node) = InOrder(done[j].node) => Text(done[i]) = Text(done[j])
    /\ \A i \in 1..Len(done) :
          done[i].node = model0 => Text(done[i]) = <<"2", " ", "+", " ", "3", " ", "*", " ", "4">>

\* model0 and the tree that groups its operands the other way
C9_Witness ==
    /\ Len(done) = 2
    /\ done[1].node = model0
    /\ done[2].node = BinOp("TIMES", BinOp("PLUS", Integer(2), Integer(3)), Integer(4))
    /\ Text(done[1]) = Text(done[2])

(***************************************************************************)
(* Properties of maxval                                                    *)
(***************************************************************************)
\* C10: on a non-empty slice maxval returns, after len(x)-1 recursive
\* calls, an element of x that no element of x exceeds
C10_Maxval ==
    /\ [](mpc = "done" =>
            /\ mcalls = Len(mx) - 1
            /\ \E i \in 1..Len(mx) : mret = mx[i]
            /\ \A i \in 1..Len(mx) : mret >= mx[i])
    /\ ((mpc = "call" /\ Len(mx) >= 1) ~> (mpc = "done"))

\* the maximum is neither the first nor the last element
C10_Witness ==
    /\ mpc = "done"
    /\ Len(mx) >= 3
    /\ mret > mx[1]
    /\ mret > mx[Len(mx)]

====
